---- MODULE Spec2Model ----
(***************************************************************************)
(* A model of scipipe's SciTask (src/task.go): construction of a task      *)
(* (NewSciTask, formatCommand), its execution (Execute: skip decision,     *)
(* shell command or CustomExecute, atomizeTargets) and its completion      *)
(* channel Done, together with the filesystem the task reads and writes    *)
(* and the goroutines that receive from Done.                              *)
(*                                                                         *)
(* Strings are sequences of chunks.  A chunk is a record [typ, name]: a    *)
(* literal piece of text has typ "lit", a placeholder {typ:name} of a      *)
(* command pattern has typ "i", "o", "os" or "p".  Concatenation of        *)
(* strings is \o, the empty string is << >>.                               *)
(***************************************************************************)
EXTENDS Naturals, Sequences, FiniteSets, TLC

\* ------------------------------------------------------------- bounds
\* Number of output port names a task may declare.
NumPorts == 2
\* Number of goroutines that may receive from the task's Done channel.
MaxReceivers == 2

\* ------------------------------------------------------------ strings
Lit(s) == [typ |-> "lit", name |-> s]
Ph(t, n) == [typ |-> t, name |-> n]
EmptyStr == << >>

PortNames == <<"out", "aux", "log", "err">>
Ports == {PortNames[i] : i \in 1..NumPorts}
Receivers == 1..MaxReceivers

\* The final paths the output-path generators may return.
PathPool == {<<Lit("/data/a.out")>>, <<Lit("/data/b.out")>>}

\* ------------------------------------------------- FileTarget (external)
NewFileTarget(path) == [path |-> path, doStream |-> FALSE]
GetPath(tgt) == tgt.path
GetTempPath(tgt) == tgt.path \o <<Lit(".tmp")>>
GetFifoPath(tgt) == tgt.path \o <<Lit(".fifo")>>

\* os.Stat(path) returns err == nil
StatOk(files, path) == path \in files

\* tgt.Atomize(): rename the temp path to the final path.  AtomizeErr is
\* whether the rename fails (there is no temp file), AtomizeFiles the files
\* after a rename that succeeds.
AtomizeErr(tgt, files) == ~StatOk(files, GetTempPath(tgt))
AtomizeFiles(tgt, files) == (files \ {GetTempPath(tgt)}) \cup {GetPath(tgt)}

\* Check(err): where the worker goes on: it panics on an error, and the
\* deferred calls of its goroutine run before it ends.
Check(err, next) == IF err THEN "panic" ELSE next

\* A Go map lookup: the zero value when the key is absent.
MapGetStr(m, k) == IF k \in DOMAIN m THEN m[k] ELSE EmptyStr
MapGetBool(m, k) == IF k \in DOMAIN m THEN m[k] ELSE FALSE

\* ------------------------------------------------------ formatCommand
PlaceHolderTypes == {"o", "os", "i", "p"}

\* Mutant of FindAllStringSubmatch: r.FindStringSubmatch(cmd), the first
\* placeholder only.
FindFirstSubmatch(cmd) ==
  LET all == SelectSeq(cmd, LAMBDA c : c.typ \in {"o", "os", "i", "p"})
  IN IF all = << >> THEN << >> ELSE <<Head(all)>>

\* r.FindAllStringSubmatch(cmd, -1): the placeholders of cmd, left to right.
FindAllStringSubmatch(cmd) == SelectSeq(cmd, LAMBDA c : c.typ \in PlaceHolderTypes)

\* str.Replace(s, old, new, -1) for a placeholder old.
RECURSIVE Replace(_, _, _)
Replace(s, old, new) ==
  IF s = << >> THEN << >>
  ELSE IF Head(s) = old THEN new \o Replace(Tail(s), old, new)
       ELSE <<Head(s)>> \o Replace(Tail(s), old, new)

\* Mutant of FilePathFor: {o:name} resolves to the final path, not the temp path.
FilePathForFinal(m, inTargets, outTargets, params) ==
  IF m.typ = "o" \/ m.typ = "os" THEN
    IF m.name \notin DOMAIN outTargets THEN EmptyStr
    ELSE IF m.typ = "o" THEN GetPath(outTargets[m.name])
         ELSE GetFifoPath(outTargets[m.name])
  ELSE IF m.typ = "i" THEN
    IF m.name \notin DOMAIN inTargets THEN EmptyStr
    ELSE IF GetPath(inTargets[m.name]) = EmptyStr THEN EmptyStr
    ELSE IF inTargets[m.name].doStream THEN GetFifoPath(inTargets[m.name])
         ELSE GetPath(inTargets[m.name])
  ELSE IF m.typ = "p" THEN MapGetStr(params, m.name)
  ELSE EmptyStr

\* The body of the loop of formatCommand up to the replacement: the value of
\* filePath for the match m; the empty string where the code calls Check
\* with an error.
FilePathFor(m, inTargets, outTargets, params) ==
  IF m.typ = "o" \/ m.typ = "os" THEN
    IF m.name \notin DOMAIN outTargets THEN EmptyStr
    ELSE IF m.typ = "o" THEN GetTempPath(outTargets[m.name])
         ELSE GetFifoPath(outTargets[m.name])
  ELSE IF m.typ = "i" THEN
    IF m.name \notin DOMAIN inTargets THEN EmptyStr
    ELSE IF GetPath(inTargets[m.name]) = EmptyStr THEN EmptyStr
    ELSE IF inTargets[m.name].doStream THEN GetFifoPath(inTargets[m.name])
         ELSE GetPath(inTargets[m.name])
  ELSE IF m.typ = "p" THEN MapGetStr(params, m.name)
  ELSE EmptyStr

\* Mutant of FormatLoop: a match whose filePath is empty is passed over (the
\* final Check of the loop body is missing and the placeholder is left).
RECURSIVE FormatLoopSkip(_, _, _, _, _)
FormatLoopSkip(ms, cmd, inTargets, outTargets, params) ==
  IF ms = << >> THEN [ok |-> TRUE, cmd |-> cmd]
  ELSE LET filePath == FilePathFor(Head(ms), inTargets, outTargets, params)
       IN IF filePath = EmptyStr
          THEN FormatLoopSkip(Tail(ms), cmd, inTargets, outTargets, params)
          ELSE FormatLoopSkip(Tail(ms), Replace(cmd, Head(ms), filePath),
                              inTargets, outTargets, params)

RECURSIVE FormatLoop(_, _, _, _, _)
FormatLoop(ms, cmd, inTargets, outTargets, params) ==
  IF ms = << >> THEN [ok |-> TRUE, cmd |-> cmd]
  ELSE LET filePath == FilePathFor(Head(ms), inTargets, outTargets, params)
       IN IF filePath = EmptyStr
          THEN [ok |-> FALSE, cmd |-> cmd]
          ELSE FormatLoop(Tail(ms), Replace(cmd, Head(ms), filePath),
                          inTargets, outTargets, params)

\* formatCommand: [ok |-> FALSE] when Check aborts, else the command.
formatCommand(cmd, inTargets, outTargets, params, prepend) ==
  LET r == FormatLoop(FindAllStringSubmatch(cmd), cmd, inTargets, outTargets, params)
  IN IF ~r.ok THEN r
     ELSE IF prepend # EmptyStr
          THEN [ok |-> TRUE, cmd |-> prepend \o <<Lit(" ")>> \o r.cmd]
          ELSE r

\* The paths formatCommand hands to the command for its outputs: what it
\* substitutes for the {o:..} and {os:..} placeholders of the pattern.
CommandOutputPaths(cmd, outTargets) ==
  {FilePathFor(m, << >>, outTargets, << >>) :
     m \in {c \in {cmd[i] : i \in DOMAIN cmd} : c.typ \in {"o", "os"}}} \ {EmptyStr}

\* ------------------------------------------------------------- inputs
PatScenario ==
  <<Lit("tool -i "), Ph("i", "in"), Lit(" -o "), Ph("o", "out"),
    Lit(" -p "), Ph("p", "level")>>
PatStream == <<Lit("cat "), Ph("i", "in"), Lit(" > "), Ph("os", "out")>>
PatPlain == <<Lit("echo hi")>>
PatTwo ==
  <<Lit("split "), Ph("i", "in"), Lit(" "), Ph("o", "out"), Lit(" "), Ph("o", "aux")>>
Patterns == {PatScenario, PatStream, PatPlain, PatTwo}

InTargetsArg == [p \in {"in"} |-> [path |-> <<Lit("/data/a.txt")>>, doStream |-> FALSE]]
ParamsArg == [p \in {"level"} |-> <<Lit("3")>>]

\* The paths a set of final paths gives rise to.
PathsOf(finals) ==
  UNION {{f, f \o <<Lit(".tmp")>>, f \o <<Lit(".fifo")>>} : f \in finals}

Range(f) == {f[x] : x \in DOMAIN f}

\* The arguments of NewSciTask, and whether the caller sets CustomExecute.
ArgChoices ==
  UNION {[cmdPat : Patterns,
          inTargets : {InTargetsArg},
          outPathFuncs : [D -> PathPool],
          outPortsDoStream : [D -> BOOLEAN],
          params : {ParamsArg},
          prepend : {EmptyStr},
          custom : BOOLEAN] : D \in SUBSET Ports}

\* -------------------------------------------------------------- state
VARIABLES
  args,        \* the arguments NewSciTask is called with (and custom)
  pc,          \* where the task's worker is
  Command,     \* t.Command
  OutTargets,  \* t.OutTargets: port name -> FileTarget
  fs,          \* the paths that exist on disk
  fs0,         \* fs when Execute evaluated its skip decision
  branch,      \* "none", "skip" or "run": the branch Execute took
  cmdRuns,     \* number of invocations of the shell command
  customRuns,  \* number of invocations of CustomExecute
  shellCmd,    \* the command line last handed to the shell by executeCommand
  strategyOk,  \* the execution strategy has returned without error
  cmdErr,      \* the shell command has reported an error
  todo,        \* the ports the running loop of Execute has not visited yet
  fifosMissing, \* the result of fifosInOutTargetsMissing so far
  atomized,    \* port name -> number of Atomize calls that renamed its file
  doneSent,    \* number of values sent on t.Done
  doneClosed,  \* t.Done is closed
  recv,        \* receiver -> "idle", "waiting", "value" or "closed"
  ofunCalls    \* port name -> number of evaluations of its path function

\* The orchestrator's call of createFifos or cleanUpFifos on the task.
VARIABLES
  fifoOp,      \* "none", "create" or "remove": the call that is running
  fifoTodo     \* the ports its loop has not visited yet

fifoVars == <<fifoOp, fifoTodo>>

\* No call of createFifos or cleanUpFifos is running.
FifoIdle == fifoOp = "none" /\ fifoTodo = {}

\* Two tasks connected by a streaming port: the producer writes its out
\* port "out" to a FIFO, the consumer has that target as its in port "in".
VARIABLES
  pst,         \* "new", "wired" (tasks constructed) or "ready" (FIFOs made)
  tpc,         \* task -> where its worker, and its command, are
  tCommand,    \* task -> t.Command
  tOut,        \* task -> t.OutTargets
  trecv,       \* task -> state of the goroutine receiving from its Done
  tclosed,     \* task -> its Done is closed
  tskip,       \* task -> Execute took its skip branch
  tfail,       \* task -> its command reported an error
  ttodo,       \* task -> atomizeTargets: the ports its loop has not visited yet
  moved        \* number of data transfers through the FIFO

pipeVars == <<pst, tpc, tCommand, tOut, trecv, tclosed, tskip, tfail, ttodo, moved>>

Tasks == {"prod", "cons"}

\* No pipeline is being run.
PipeIdle ==
  /\ pst = "new"
  /\ tpc = [t \in Tasks |-> "created"]
  /\ tCommand = [t \in Tasks |-> EmptyStr]
  /\ tOut = [t \in Tasks |-> << >>]
  /\ trecv = [t \in Tasks |-> "idle"]
  /\ tclosed = [t \in Tasks |-> FALSE]
  /\ tskip = [t \in Tasks |-> FALSE]
  /\ tfail = [t \in Tasks |-> FALSE]
  /\ ttodo = [t \in Tasks |-> {}]
  /\ moved = 0

vars == <<args, pc, Command, OutTargets, fs, fs0, branch, cmdRuns, customRuns,
          shellCmd, strategyOk, cmdErr, todo, fifosMissing, atomized, doneSent,
          doneClosed, recv,
          ofunCalls, fifoVars, pipeVars>>

taskVars == <<args, Command, OutTargets, ofunCalls, fifoVars, pipeVars>>
execVars == <<fs0, branch, cmdRuns, customRuns, shellCmd, strategyOk, cmdErr, todo,
              fifosMissing, atomized>>
chanVars == <<doneSent, doneClosed, recv>>

Init ==
  /\ args \in ArgChoices
  /\ pc = "new"
  /\ Command = EmptyStr
  /\ OutTargets = << >>
  /\ fs \in SUBSET PathsOf(Range(args.outPathFuncs))
  /\ fs0 = {}
  /\ branch = "none"
  /\ cmdRuns = 0
  /\ customRuns = 0
  /\ shellCmd = EmptyStr
  /\ strategyOk = FALSE
  /\ cmdErr = FALSE
  /\ todo = {}
  /\ fifosMissing = FALSE
  /\ atomized = [p \in Ports |-> 0]
  /\ doneSent = 0
  /\ doneClosed = FALSE
  /\ recv = [r \in Receivers |-> "idle"]
  /\ ofunCalls = [p \in Ports |-> 0]
  /\ FifoIdle
  /\ PipeIdle

\* ---------------------------------------------------------- NewSciTask
\* A NewSciTask that hands every target the path of one and the same port.
NewOutTargetsShared(outPathFuncs, outPortsDoStream) ==
  [oname \in DOMAIN outPathFuncs |->
     [NewFileTarget(outPathFuncs[CHOOSE o \in DOMAIN outPathFuncs : TRUE]) EXCEPT
        !.doStream = MapGetBool(outPortsDoStream, oname)]]

\* The out targets NewSciTask creates: one per path function, marked
\* streaming when outPortsDoStream says so.
NewOutTargets(outPathFuncs, outPortsDoStream) ==
  [oname \in DOMAIN outPathFuncs |->
     [NewFileTarget(outPathFuncs[oname]) EXCEPT
        !.doStream = MapGetBool(outPortsDoStream, oname)]]

NewSciTask ==
  /\ pc = "new"
  /\ LET outTargets == NewOutTargets(args.outPathFuncs, args.outPortsDoStream)
         r == formatCommand(args.cmdPat, args.inTargets, outTargets,
                            args.params, args.prepend)
     IN /\ OutTargets' = outTargets
        /\ ofunCalls' = [p \in Ports |->
                           IF p \in DOMAIN args.outPathFuncs THEN 1 ELSE 0]
        /\ IF r.ok
           THEN Command' = r.cmd /\ pc' = "created"
           ELSE Command' = EmptyStr /\ pc' = "configError"
  /\ UNCHANGED <<args, fs, execVars, chanVars, fifoVars, pipeVars>>

\* ------------------------------------------------------ skip decision
\* Mutant of anyOutputExists: the temp path is not looked at.
anyOutputExistsFinalOnly(targets, files) ==
  \E p \in DOMAIN targets :
     /\ ~targets[p].doStream
     /\ StatOk(files, GetPath(targets[p]))

anyOutputExists(targets, files) ==
  \E p \in DOMAIN targets :
     /\ ~targets[p].doStream
     /\ \/ StatOk(files, GetPath(targets[p]))
        \/ StatOk(files, GetTempPath(targets[p]))

\* One iteration of the loop of fifosInOutTargetsMissing: the target is
\* streaming and os.Stat does not find its FIFO.
FifoMissing(tgt, files) == tgt.doStream /\ ~StatOk(files, GetFifoPath(tgt))

\* fifosInOutTargetsMissing on a disk that does not change during the call.
fifosInOutTargetsMissing(targets, files) ==
  \E p \in DOMAIN targets : FifoMissing(targets[p], files)

\* The condition of the if statement of Execute.
ShouldRun(targets, files) ==
  ~anyOutputExists(targets, files) /\ ~fifosInOutTargetsMissing(targets, files)

\* ------------------------------------------------------------ Execute
\* Execute is called: the close of Done is deferred and anyOutputExists is
\* evaluated; nothing but this task writes the paths it looks at.  When an
\* output exists the task is skipped (&& does not evaluate its right side),
\* else fifosInOutTargetsMissing starts its loop.
ExecuteStart ==
  /\ pc = "created"
  /\ fs0' = fs
  /\ fifosMissing' = FALSE
  /\ IF anyOutputExists(OutTargets, fs)
     THEN branch' = "skip" /\ pc' = "sending" /\ UNCHANGED todo
     ELSE pc' = "checkFifos" /\ todo' = DOMAIN OutTargets /\ UNCHANGED branch
  /\ UNCHANGED <<taskVars, fs, cmdRuns, customRuns, shellCmd, strategyOk, cmdErr,
                 atomized, chanVars>>

\* One iteration of the loop of fifosInOutTargetsMissing, for port p: one
\* os.Stat on the disk as it is now.
FifoCheckStep(p) ==
  /\ pc = "checkFifos"
  /\ p \in todo
  /\ todo' = todo \ {p}
  /\ fifosMissing' = (fifosMissing \/ FifoMissing(OutTargets[p], fs))
  /\ UNCHANGED <<taskVars, pc, fs, fs0, branch, cmdRuns, customRuns, shellCmd,
                 strategyOk, cmdErr, atomized, chanVars>>

\* Mutant of ExecuteDecide: the else is missing, so that the shell command
\* runs after CustomExecute as well.
ExecuteDecideBoth ==
  /\ pc = "checkFifos"
  /\ todo = {}
  /\ IF ~fifosMissing
     THEN /\ branch' = "run"
          /\ pc' = "running"
          /\ customRuns' = IF args.custom THEN customRuns + 1 ELSE customRuns
          /\ cmdRuns' = cmdRuns + 1
          /\ shellCmd' = Command
     ELSE /\ branch' = "skip"
          /\ pc' = "sending"
          /\ UNCHANGED <<cmdRuns, customRuns, shellCmd>>
  /\ UNCHANGED <<taskVars, fs, fs0, strategyOk, cmdErr, todo, fifosMissing, atomized,
                 chanVars>>

\* fifosInOutTargetsMissing returns: the call of the execution strategy, or
\* the way to the send on Done when a FIFO was found missing.
ExecuteDecide ==
  /\ pc = "checkFifos"
  /\ todo = {}
  /\ IF ~fifosMissing
     THEN /\ branch' = "run"
          /\ pc' = "running"
          /\ IF args.custom
             THEN customRuns' = customRuns + 1 /\ UNCHANGED <<cmdRuns, shellCmd>>
             ELSE /\ cmdRuns' = cmdRuns + 1
                  /\ shellCmd' = Command
                  /\ UNCHANGED customRuns
     ELSE /\ branch' = "skip"
          /\ pc' = "sending"
          /\ UNCHANGED <<cmdRuns, customRuns, shellCmd>>
  /\ UNCHANGED <<taskVars, fs, fs0, strategyOk, cmdErr, todo, fifosMissing, atomized,
                 chanVars>>

\* The paths the running strategy writes to: the shell command those that
\* formatCommand put in its command line, CustomExecute the write
\* destination of each out target (temp path, or FIFO when streaming).
WritablePaths ==
  IF args.custom
  THEN {IF OutTargets[p].doStream THEN GetFifoPath(OutTargets[p])
        ELSE GetTempPath(OutTargets[p]) : p \in DOMAIN OutTargets}
  ELSE CommandOutputPaths(args.cmdPat, OutTargets)

\* The running command (or CustomExecute) creates one of its output files.
StrategyWrite(path) ==
  /\ pc = "running"
  /\ path \in WritablePaths \ fs
  /\ fs' = fs \cup {path}
  /\ UNCHANGED <<taskVars, pc, execVars, chanVars>>

\* Mutant of StrategyReturn: the call of atomizeTargets is missing.
StrategyReturnNoAtomize ==
  /\ pc = "running"
  /\ strategyOk' = TRUE
  /\ pc' = "sending"
  /\ UNCHANGED <<taskVars, fs, fs0, branch, cmdRuns, customRuns, shellCmd, cmdErr,
                 todo, atomized, fifosMissing,
                 chanVars>>

\* The strategy returns without error; atomizeTargets starts.
StrategyReturn ==
  /\ pc = "running"
  /\ strategyOk' = TRUE
  /\ todo' = DOMAIN OutTargets
  /\ pc' = "atomizing"
  /\ UNCHANGED <<taskVars, fs, fs0, branch, cmdRuns, customRuns, shellCmd, cmdErr,
                 atomized, fifosMissing,
                 chanVars>>

\* Mutant of CommandFails: the error of the shell is dropped (no Check).
CommandFailsIgnored ==
  /\ pc = "running"
  /\ ~args.custom
  /\ cmdErr' = TRUE
  /\ todo' = DOMAIN OutTargets
  /\ pc' = "atomizing"
  /\ UNCHANGED <<taskVars, fs, fs0, branch, cmdRuns, customRuns, shellCmd, strategyOk,
                 atomized, fifosMissing,
                 chanVars>>

\* executeCommand: the shell reports an error and Check aborts.
CommandFails ==
  /\ pc = "running"
  /\ ~args.custom
  /\ cmdErr' = TRUE
  /\ pc' = Check(TRUE, "atomizing")
  /\ UNCHANGED <<taskVars, fs, fs0, branch, cmdRuns, customRuns, shellCmd, strategyOk,
                 todo, atomized, fifosMissing,
                 chanVars>>

\* Mutant of AtomizeStep: the test of doStream is missing.
AtomizeStepAll(p) ==
  /\ pc = "atomizing"
  /\ p \in todo
  /\ todo' = todo \ {p}
  /\ pc' = Check(AtomizeErr(OutTargets[p], fs), pc)
  /\ IF AtomizeErr(OutTargets[p], fs)
     THEN UNCHANGED <<fs, atomized>>
     ELSE /\ fs' = AtomizeFiles(OutTargets[p], fs)
          /\ atomized' = [atomized EXCEPT ![p] = @ + 1]
  /\ UNCHANGED <<taskVars, fs0, branch, cmdRuns, customRuns, shellCmd, strategyOk,
                 cmdErr, fifosMissing,
                 chanVars>>

\* One iteration of the loop of atomizeTargets, for port p.
AtomizeStep(p) ==
  /\ pc = "atomizing"
  /\ p \in todo
  /\ todo' = todo \ {p}
  /\ IF ~OutTargets[p].doStream
     THEN /\ pc' = Check(AtomizeErr(OutTargets[p], fs), pc)
          /\ IF AtomizeErr(OutTargets[p], fs)
             THEN UNCHANGED <<fs, atomized>>
             ELSE /\ fs' = AtomizeFiles(OutTargets[p], fs)
                  /\ atomized' = [atomized EXCEPT ![p] = @ + 1]
     ELSE UNCHANGED <<fs, atomized, pc>>
  /\ UNCHANGED <<taskVars, fs0, branch, cmdRuns, customRuns, shellCmd, strategyOk,
                 cmdErr, fifosMissing,
                 chanVars>>

\* atomizeTargets returns.
AtomizeReturn ==
  /\ pc = "atomizing"
  /\ todo = {}
  /\ pc' = "sending"
  /\ UNCHANGED <<taskVars, fs, execVars, chanVars>>

\* t.Done <- 1 on the unbuffered channel: a rendezvous with receiver r.
SendDone(r) ==
  /\ pc = "sending"
  /\ recv[r] = "waiting"
  /\ recv' = [recv EXCEPT ![r] = "value"]
  /\ doneSent' = doneSent + 1
  /\ pc' = "sent"
  /\ UNCHANGED <<taskVars, fs, execVars, doneClosed>>

\* Mutant of DeferClose: Execute returns without closing Done.
DeferNoClose ==
  /\ pc \in {"sent", "panic"}
  /\ pc' = IF pc = "sent" THEN "done" ELSE "aborted"
  /\ UNCHANGED <<taskVars, fs, execVars, chanVars>>

\* defer close(t.Done): runs when Execute returns and when it panics.
DeferClose ==
  /\ pc \in {"sent", "panic"}
  /\ doneClosed' = TRUE
  /\ pc' = IF pc = "sent" THEN "done" ELSE "aborted"
  /\ UNCHANGED <<taskVars, fs, execVars, doneSent, recv>>

\* --------------------------------------------------- receivers of Done
\* A goroutine starts <-t.Done.
RecvStart(r) ==
  /\ recv[r] = "idle"
  /\ pc \notin {"new", "configError"}
  /\ recv' = [recv EXCEPT ![r] = "waiting"]
  /\ UNCHANGED <<taskVars, pc, fs, execVars, doneSent, doneClosed>>

\* A receive on the closed channel returns the zero value.
RecvClosed(r) ==
  /\ recv[r] = "waiting"
  /\ doneClosed
  /\ recv' = [recv EXCEPT ![r] = "closed"]
  /\ UNCHANGED <<taskVars, pc, fs, execVars, doneSent, doneClosed>>

Next ==
  \/ NewSciTask
  \/ ExecuteStart
  \/ \E p \in Ports : FifoCheckStep(p)
  \/ ExecuteDecide
  \/ \E path \in PathsOf(PathPool) : StrategyWrite(path)
  \/ StrategyReturn
  \/ CommandFails
  \/ \E p \in Ports : AtomizeStep(p)
  \/ AtomizeReturn
  \/ \E r \in Receivers : SendDone(r)
  \/ DeferClose
  \/ \E r \in Receivers : RecvStart(r)
  \/ \E r \in Receivers : RecvClosed(r)

Spec == Init /\ [][Next]_vars

\* The worker running Execute is scheduled until it blocks or ends, the
\* command it started ends, and the goroutines that wait for the task do
\* reach their receive from Done.
WorkerStep ==
  \/ NewSciTask
  \/ ExecuteStart
  \/ \E p \in Ports : FifoCheckStep(p)
  \/ ExecuteDecide
  \/ StrategyReturn
  \/ \E p \in Ports : AtomizeStep(p)
  \/ AtomizeReturn
  \/ \E r \in Receivers : SendDone(r)
  \/ DeferClose

\* A task with the pattern of the scenario and the shell strategy, on any
\* disk.  The worker is scheduled and a receive from the closed channel
\* returns; nothing makes a goroutine start to receive from Done.
SkipInit == Init /\ args.cmdPat = PatScenario /\ ~args.custom

SpecSkip ==
  /\ SkipInit /\ [][Next]_vars
  /\ WF_vars(WorkerStep)
  /\ \A r \in Receivers : WF_vars(RecvClosed(r))

\* ------------------------------------------------------------- claims
\* What the claims speak of, stated on the files and the declared flags.
Declared == DOMAIN OutTargets
NonStreaming(p) == p \in Declared /\ ~OutTargets[p].doStream
Streaming(p) == p \in Declared /\ OutTargets[p].doStream
FinalOf(p) == OutTargets[p].path
TempOf(p) == OutTargets[p].path \o <<Lit(".tmp")>>
FifoOf(p) == OutTargets[p].path \o <<Lit(".fifo")>>
Started == branch # "none"
StrategyRuns == cmdRuns + customRuns

\* When Execute started, no skip condition held.
NoSkipCondition ==
  /\ \A p \in Ports : NonStreaming(p) => FinalOf(p) \notin fs0 /\ TempOf(p) \notin fs0
  /\ \A p \in Ports : Streaming(p) => FifoOf(p) \in fs0

\* C1 as stated: whenever a non-streaming output's final path did not exist
\* when Execute started, once Execute has returned that final path exists, its
\* temp path does not, it was atomized once and Done was signalled once.
C1_Original ==
  pc = "done" =>
    \A p \in Ports :
      (NonStreaming(p) /\ FinalOf(p) \notin fs0) =>
        /\ FinalOf(p) \in fs
        /\ TempOf(p) \notin fs
        /\ atomized[p] = 1
        /\ doneSent = 1

\* C1 amended: the same, for the tasks that met no skip condition when Execute
\* started (no non-streaming output's final or temp path existed and every
\* streaming output's FIFO existed).
C1_AtomizedAfterRun ==
  (pc = "done" /\ NoSkipCondition) =>
    \A p \in Ports :
      (NonStreaming(p) /\ FinalOf(p) \notin fs0) =>
        /\ FinalOf(p) \in fs
        /\ TempOf(p) \notin fs
        /\ atomized[p] = 1
        /\ doneSent = 1

C1_Witness ==
  /\ pc = "done"
  /\ NoSkipCondition
  /\ \E p \in Ports : NonStreaming(p) /\ FinalOf(p) \notin fs0 /\ FinalOf(p) \in fs

\* A non-streaming output's final path existed when Execute started.
FinalExistedAtStart ==
  Started /\ \E p \in Ports : NonStreaming(p) /\ FinalOf(p) \in fs0

\* The skip of C2 up to the send: neither the shell command nor
\* CustomExecute is invoked, and Execute goes on to the send on Done.
C2_SkipWhenFinalExists ==
  FinalExistedAtStart =>
    /\ cmdRuns = 0 /\ customRuns = 0
    /\ pc \in {"sending", "sent", "done"}
    /\ pc \in {"sent", "done"} => doneSent = 1

\* C2 as stated: if a non-streaming output's final path exists when Execute
\* starts, neither the shell command nor CustomExecute is ever invoked, and
\* the completion signal fires: the value is sent on Done and Done is closed.
C2_Original ==
  /\ [](FinalExistedAtStart => cmdRuns = 0 /\ customRuns = 0)
  /\ FinalExistedAtStart ~> (doneSent = 1 /\ doneClosed)

\* The skipped Execute of C2 sits in its send, with no goroutine receiving.
C2_BlockedInSend ==
  /\ FinalExistedAtStart
  /\ pc = "sending"
  /\ \A r \in Receivers : recv[r] = "idle"
  /\ ~ENABLED WorkerStep

\* The signal of C2 does fire when a goroutine is receiving from Done.
C2_SignalFires ==
  (FinalExistedAtStart /\ \E r \in Receivers : recv[r] = "waiting")
    ~> (doneSent = 1 /\ doneClosed)

C2_Witness == FinalExistedAtStart /\ pc = "done" /\ doneSent = 1

\* A streaming output's FIFO did not exist when Execute started.
FifoMissingAtStart ==
  Started /\ \E p \in Ports : Streaming(p) /\ FifoOf(p) \notin fs0

\* The skip of C3 up to the send: neither the shell command nor
\* CustomExecute is invoked, nothing aborts, and Execute goes on to the send
\* on Done.
C3_SkipWhenFifoMissing ==
  FifoMissingAtStart =>
    /\ cmdRuns = 0 /\ customRuns = 0
    /\ ~cmdErr
    /\ pc \in {"sending", "sent", "done"}
    /\ pc \in {"sent", "done"} => doneSent = 1

\* C3 as stated: if a streaming output's FIFO is missing when Execute
\* starts, neither the shell command nor CustomExecute is ever invoked,
\* nothing aborts, and the completion signal fires: the value is sent on
\* Done and Done is closed.
C3_Original ==
  /\ [](FifoMissingAtStart =>
          cmdRuns = 0 /\ customRuns = 0 /\ ~cmdErr /\ pc \notin {"panic", "aborted"})
  /\ FifoMissingAtStart ~> (doneSent = 1 /\ doneClosed)

\* The skipped Execute of C3 sits in its send, with no goroutine receiving.
C3_BlockedInSend ==
  /\ FifoMissingAtStart
  /\ pc = "sending"
  /\ \A r \in Receivers : recv[r] = "idle"
  /\ ~ENABLED WorkerStep

\* The signal of C3 does fire when a goroutine is receiving from Done.
C3_SignalFires ==
  (FifoMissingAtStart /\ \E r \in Receivers : recv[r] = "waiting")
    ~> (doneSent = 1 /\ doneClosed)

\* The FIFO alone is the reason of the skip.
C3_Witness ==
  /\ FifoMissingAtStart
  /\ \A p \in Ports : NonStreaming(p) => FinalOf(p) \notin fs0 /\ TempOf(p) \notin fs0
  /\ pc = "done"
  /\ doneSent = 1

\* C4: the skip decision is taken once, before anything is written, and is
\* exact: the strategy runs if and only if no skip condition held at that
\* moment; a skipped Execute changes no file, temp file or FIFO.
C4_Decision ==
  /\ ~Started => StrategyRuns = 0
  /\ Started =>
       /\ (StrategyRuns >= 1) <=> NoSkipCondition
       /\ (branch = "run") <=> NoSkipCondition
       /\ ~NoSkipCondition => fs = fs0

C4_SkipDecisionExact ==
  /\ []C4_Decision
  /\ [][/\ ~Started => fs' = fs
        /\ Started => branch' = branch /\ fs0' = fs0]_vars

\* A stale temp file alone blocks the execution.
C4_Witness ==
  /\ pc = "done"
  /\ branch = "skip"
  /\ \E p \in Ports : NonStreaming(p) /\ TempOf(p) \in fs0
  /\ \A p \in Ports : NonStreaming(p) => FinalOf(p) \notin fs0
  /\ \A p \in Ports : Streaming(p) => FifoOf(p) \in fs0

\* C5 as stated: in every run of Execute, Done is signalled at most once, is
\* not closed before the one value was sent, and is closed once Execute is
\* over.
C5_Original ==
  /\ doneSent <= 1
  /\ doneClosed => doneSent = 1
  /\ pc \in {"done", "aborted"} => doneClosed

\* The runs of C5 in which nothing aborts do signal once and then close.
C5_SignalThenClose ==
  /\ doneSent <= 1
  /\ (doneClosed /\ pc # "aborted") => (doneSent = 1 /\ pc = "done")
  /\ pc = "done" => doneClosed

\* C6: a non-streaming output's final path that did not exist when Execute
\* started exists only once the execution strategy has returned without
\* error; while the strategy runs the output is at most at its temp path.
C6_AtomicVisibility ==
  Started =>
    \A p \in Ports :
      (NonStreaming(p) /\ FinalOf(p) \notin fs0 /\ FinalOf(p) \in fs) =>
        (strategyOk /\ pc # "running")

\* The command has written an output, which is visible at the temp path only.
C6_Witness ==
  /\ pc = "running"
  /\ \E p \in Ports :
       NonStreaming(p) /\ FinalOf(p) \notin fs0 /\ TempOf(p) \in fs /\ FinalOf(p) \notin fs

\* C7: once the shell command has reported an error the worker is aborted:
\* nothing is atomized, no final path is created, the task is not turned
\* into a skip and no value is sent on Done.
C7_CommandErrorAborts ==
  cmdErr =>
    /\ pc \in {"panic", "aborted"}
    /\ branch = "run"
    /\ ~strategyOk
    /\ \A p \in Ports : atomized[p] = 0
    /\ \A p \in Declared : FinalOf(p) \in fs => FinalOf(p) \in fs0
    /\ doneSent = 0
    /\ \A r \in Receivers : recv[r] # "value"

\* The command fails after it has written an output to its temp path.
C7_Witness ==
  /\ cmdErr
  /\ pc = "aborted"
  /\ \E p \in Ports : NonStreaming(p) /\ TempOf(p) \in fs

\* C8: when no skip condition holds Execute runs one strategy, once:
\* CustomExecute if it is set, and then never the shell; else the shell, with
\* the formatted t.Command.  No run invokes both or one of them twice.
C8_OneStrategyOnce ==
  /\ StrategyRuns <= 1
  /\ (Started /\ NoSkipCondition) =>
       IF args.custom
       THEN customRuns = 1 /\ cmdRuns = 0 /\ shellCmd = EmptyStr
       ELSE cmdRuns = 1 /\ customRuns = 0 /\ shellCmd = Command /\ Command # EmptyStr

C8_Witness == Started /\ NoSkipCondition /\ args.custom /\ customRuns = 1 /\ pc = "done"

\* Execute has run the strategy and atomizeTargets to their end.
Finalized == branch = "run" /\ pc \in {"sending", "sent", "done"}

\* C9: after a successful execution every output not declared streaming has
\* been atomized exactly once; an output declared streaming is never
\* atomized, and its FIFO is neither created nor removed.
C9_AtomizeByFlag ==
  /\ \A p \in Ports : atomized[p] <= 1
  /\ \A p \in Ports : Streaming(p) => atomized[p] = 0
  /\ Started => \A p \in Ports :
       Streaming(p) => (FifoOf(p) \in fs <=> FifoOf(p) \in fs0)
  /\ Finalized => \A p \in Ports : NonStreaming(p) => atomized[p] = 1

C9_Witness ==
  /\ Finalized
  /\ pc = "done"
  /\ \E p \in Ports : NonStreaming(p) /\ atomized[p] = 1
  /\ \E p \in Ports : Streaming(p) /\ atomized[p] = 0 /\ TempOf(p) \in fs

\* The ports the command pattern refers to with an {o:name} placeholder.
OTokenPorts == {args.cmdPat[i].name : i \in {j \in DOMAIN args.cmdPat : args.cmdPat[j].typ = "o"}}

\* C10 as stated: whatever streaming flag was declared, after a successful
\* execution no output the pattern names with {o:name} is left at the temp
\* path the command was given and wrote to.
C10_Original ==
  Finalized =>
    \A p \in OTokenPorts \cap Declared :
       TempOf(p) \notin fs0 => TempOf(p) \notin fs


\* The ports the command pattern refers to with an {os:name} placeholder.
OsTokenPorts == {args.cmdPat[i].name : i \in {j \in DOMAIN args.cmdPat : args.cmdPat[j].typ = "os"}}

\* C11 as stated: whatever streaming flag was declared, an output the pattern
\* names with {os:name} is never atomized, and Execute runs the command only
\* if that output's FIFO exists (its skip decision looks at the FIFO).
C11_Original ==
  (Started /\ ~args.custom) =>
    \A p \in OsTokenPorts \cap Declared :
       /\ atomized[p] = 0
       /\ branch = "run" => FifoOf(p) \in fs0


\* ------------------------------------------- the command formatter alone
\* Longest generated command pattern, in chunks.
MaxPatLen == 3

\* The chunks generated patterns are made of.
FormatAlphabet ==
  {Ph("i", "in"), Ph("o", "out"), Ph("os", "out"), Ph("p", "level"), Lit(" ")}

FormatPatterns ==
  {PatScenario} \cup UNION {[1..n -> FormatAlphabet] : n \in 0..MaxPatLen}

\* The input target of port in: none, a file, a streaming target, or a
\* target with an empty path.
FormatInTargets ==
  {<< >>} \cup
  {[p \in {"in"} |-> [path |-> path, doStream |-> s]] :
     path \in {<<Lit("/data/a.txt")>>}, s \in BOOLEAN} \cup
  {[p \in {"in"} |-> [path |-> EmptyStr, doStream |-> FALSE]]}

\* The parameter level: none, empty, "3", or a value that reads {i:in}.
FormatParams ==
  {<< >>} \cup
  {[p \in {"level"} |-> v] : v \in {EmptyStr, <<Lit("3")>>, <<Ph("i", "in")>>}}

FormatArgChoices ==
  UNION {[cmdPat : FormatPatterns,
          inTargets : FormatInTargets,
          outPathFuncs : [D -> {<<Lit("/data/a.out")>>}],
          outPortsDoStream : [D -> BOOLEAN],
          params : FormatParams,
          prepend : {EmptyStr, <<Lit("time")>>},
          custom : {FALSE}] : D \in SUBSET {"out"}}

FormatInit ==
  /\ args \in FormatArgChoices
  /\ pc = "new"
  /\ Command = EmptyStr
  /\ OutTargets = << >>
  /\ fs = {}
  /\ fs0 = {}
  /\ branch = "none"
  /\ cmdRuns = 0
  /\ customRuns = 0
  /\ shellCmd = EmptyStr
  /\ strategyOk = FALSE
  /\ cmdErr = FALSE
  /\ todo = {}
  /\ fifosMissing = FALSE
  /\ atomized = [p \in Ports |-> 0]
  /\ doneSent = 0
  /\ doneClosed = FALSE
  /\ recv = [r \in Receivers |-> "idle"]
  /\ ofunCalls = [p \in Ports |-> 0]
  /\ FifoIdle
  /\ PipeIdle

FormatNext == NewSciTask

\* NewSciTask alone, on patterns and mappings of every kind.
SpecFormat == FormatInit /\ [][FormatNext]_vars

\* The placeholders of the pattern, and what the arguments say of one.
PatternTokens ==
  {args.cmdPat[i] : i \in {j \in DOMAIN args.cmdPat : args.cmdPat[j].typ # "lit"}}

NameAbsent(tok) ==
  \/ tok.typ = "i" /\ tok.name \notin DOMAIN args.inTargets
  \/ tok.typ \in {"o", "os"} /\ tok.name \notin DOMAIN args.outPathFuncs
  \/ tok.typ = "p" /\ tok.name \notin DOMAIN args.params

ValueEmpty(tok) ==
  \/ tok.typ = "i" /\ tok.name \in DOMAIN args.inTargets
       /\ args.inTargets[tok.name].path = << >>
  \/ tok.typ = "p" /\ tok.name \in DOMAIN args.params
       /\ args.params[tok.name] = << >>

\* C12: formatting fails, and NewSciTask yields no task and no command,
\* whenever a token of the pattern names something absent from its mapping or
\* resolves to the empty string; a task is made only if every token resolves.
C12_FormattingFails ==
  pc # "new" =>
    /\ (\E tok \in PatternTokens : NameAbsent(tok) \/ ValueEmpty(tok)) =>
         (pc = "configError" /\ Command = << >>)
    /\ pc = "created" =>
         \A tok \in PatternTokens : ~NameAbsent(tok) /\ ~ValueEmpty(tok)

\* A later token fails after an earlier one resolved.
C12_Witness ==
  /\ pc = "configError"
  /\ \E tok \in PatternTokens : ValueEmpty(tok)
  /\ \E tok \in PatternTokens : ~NameAbsent(tok) /\ ~ValueEmpty(tok)
  /\ ~\E tok \in PatternTokens : NameAbsent(tok)


\* No placeholder is left in the formatted command.
NoPlaceHolderLeft == \A i \in DOMAIN Command : Command[i].typ = "lit"

\* C13 as stated: for every valid mapping the formatted command holds no
\* placeholder any more.
C13_Original == pc = "created" => NoPlaceHolderLeft

\* The values the tokens of the pattern resolve to are plain text.
IsPlain(s) == \A i \in DOMAIN s : s[i].typ = "lit"
ValuesPlain ==
  /\ \A n \in DOMAIN args.params : IsPlain(args.params[n])
  /\ \A n \in DOMAIN args.inTargets : IsPlain(args.inTargets[n].path)
  /\ \A n \in DOMAIN args.outPathFuncs : IsPlain(args.outPathFuncs[n])

\* C13 amended: for every valid mapping whose values hold no placeholder
\* text, the formatted command holds no placeholder any more: every
\* occurrence of every token, repeated ones too, is resolved.
C13_AllResolved == (pc = "created" /\ ValuesPlain) => NoPlaceHolderLeft

\* A pattern that names the same token twice.
C13_Witness ==
  /\ pc = "created"
  /\ ValuesPlain
  /\ \E i, j \in DOMAIN args.cmdPat :
       i # j /\ args.cmdPat[i] = args.cmdPat[j] /\ args.cmdPat[i].typ # "lit"


\* What the rules of the formatter make of one chunk of the pattern: text is
\* kept; {i:name} is the input's FIFO path if it streams, else its path;
\* {o:name} the output's temp path; {os:name} its FIFO path; {p:name} the
\* parameter's value.
RuleValue(c) ==
  IF c.typ = "lit" THEN <<c>>
  ELSE IF c.typ = "i" THEN
    IF args.inTargets[c.name].doStream
    THEN args.inTargets[c.name].path \o <<Lit(".fifo")>>
    ELSE args.inTargets[c.name].path
  ELSE IF c.typ = "o" THEN args.outPathFuncs[c.name] \o <<Lit(".tmp")>>
  ELSE IF c.typ = "os" THEN args.outPathFuncs[c.name] \o <<Lit(".fifo")>>
  ELSE args.params[c.name]

RECURSIVE RuleText(_)
RuleText(pat) == IF pat = << >> THEN << >> ELSE RuleValue(Head(pat)) \o RuleText(Tail(pat))

RuleCommand ==
  IF args.prepend = << >> THEN RuleText(args.cmdPat)
  ELSE args.prepend \o <<Lit(" ")>> \o RuleText(args.cmdPat)

\* C14 as stated: for every pattern and mapping the formatted command is the
\* pattern with each token replaced after the rule of its kind, behind the
\* prefix and one space when there is a prefix.
C14_Original == pc = "created" => Command = RuleCommand

\* C14 holds of the mappings whose values are plain text; the pattern of the
\* scenario then gives tool -i /data/a.txt -o /data/a.out.tmp -p 3.
C14_PlainValues == (pc = "created" /\ ValuesPlain) => Command = RuleCommand

C14_Scenario ==
  (/\ pc = "created"
   /\ args.cmdPat = PatScenario
   /\ ~args.inTargets["in"].doStream
   /\ args.params["level"] = <<Lit("3")>>
   /\ args.prepend = << >>) =>
    Command = <<Lit("tool -i "), Lit("/data/a.txt"), Lit(" -o "), Lit("/data/a.out"),
                Lit(".tmp"), Lit(" -p "), Lit("3")>>


\* The orders in which the matches ms can be processed.
Orders(ms) ==
  {[i \in DOMAIN ms |-> ms[f[i]]] :
     f \in {g \in [DOMAIN ms -> DOMAIN ms] : \A i, j \in DOMAIN ms : g[i] = g[j] => i = j}}

\* formatCommand with its loop processing the matches in the order ms.
FormatInOrder(ms) ==
  LET r == FormatLoop(ms, args.cmdPat, args.inTargets,
                      NewOutTargets(args.outPathFuncs, args.outPortsDoStream), args.params)
  IN IF r.ok /\ args.prepend # << >>
     THEN [ok |-> TRUE, cmd |-> args.prepend \o <<Lit(" ")>> \o r.cmd]
     ELSE r

\* C15 as stated: whatever the order in which the tokens of the pattern are
\* processed, formatting ends the same way and gives the command that
\* NewSciTask stored.
C15_Original ==
  pc # "new" =>
    \A ms \in Orders(FindAllStringSubmatch(args.cmdPat)) :
       /\ FormatInOrder(ms).ok <=> pc = "created"
       /\ FormatInOrder(ms).ok => FormatInOrder(ms).cmd = Command

\* The order does not matter when the values are plain text.
C15_PlainValues ==
  (pc # "new" /\ ValuesPlain) =>
    \A ms \in Orders(FindAllStringSubmatch(args.cmdPat)) :
       /\ FormatInOrder(ms).ok <=> pc = "created"
       /\ FormatInOrder(ms).ok => FormatInOrder(ms).cmd = Command


\* --------------------------------------------------- FIFO lifecycle
\* CreateFifo makes the named pipe of the target, RemoveFifo removes it.
CreateFifo(tgt, files) == files \cup {GetFifoPath(tgt)}
RemoveFifo(tgt, files) == files \ {GetFifoPath(tgt)}

RECURSIVE ForEachStreaming(_, _, _, _)
\* The disk after the whole loop of createFifos (op = "create") or of
\* cleanUpFifos (op = "remove") over the out targets of the ports in ps; the
\* calls add or remove distinct paths, so the order does not show.
ForEachStreaming(op, ps, targets, files) ==
  IF ps = {} THEN files
  ELSE LET p == CHOOSE q \in ps : TRUE
           next == IF ~targets[p].doStream THEN files
                   ELSE IF op = "create" THEN CreateFifo(targets[p], files)
                   ELSE RemoveFifo(targets[p], files)
       IN ForEachStreaming(op, ps \ {p}, targets, next)

\* The surrounding orchestrator calls createFifos on a constructed task:
\* its loop over the out targets starts.
createFifos ==
  /\ pc \notin {"new", "configError"}
  /\ fifoOp = "none"
  /\ fifoOp' = "create"
  /\ fifoTodo' = DOMAIN OutTargets
  /\ UNCHANGED <<args, Command, OutTargets, ofunCalls, pipeVars, pc, fs, execVars,
                 chanVars>>

\* The surrounding orchestrator calls cleanUpFifos on a constructed task:
\* its loop over the out targets starts.
cleanUpFifos ==
  /\ pc \notin {"new", "configError"}
  /\ fifoOp = "none"
  /\ fifoOp' = "remove"
  /\ fifoTodo' = DOMAIN OutTargets
  /\ UNCHANGED <<args, Command, OutTargets, ofunCalls, pipeVars, pc, fs, execVars,
                 chanVars>>

\* One iteration of the loop of createFifos or of cleanUpFifos, for port p;
\* the map is ranged over in any order.
FifoLoopStep(p) ==
  /\ fifoOp # "none"
  /\ p \in fifoTodo
  /\ fifoTodo' = fifoTodo \ {p}
  /\ fs' = IF ~OutTargets[p].doStream THEN fs
           ELSE IF fifoOp = "create" THEN CreateFifo(OutTargets[p], fs)
           ELSE RemoveFifo(OutTargets[p], fs)
  /\ UNCHANGED <<args, Command, OutTargets, ofunCalls, pipeVars, pc, execVars,
                 chanVars, fifoOp>>

\* createFifos or cleanUpFifos returns.
FifoLoopReturn ==
  /\ fifoOp # "none"
  /\ fifoTodo = {}
  /\ fifoOp' = "none"
  /\ UNCHANGED <<args, Command, OutTargets, ofunCalls, pipeVars, pc, fs, execVars,
                 chanVars, fifoTodo>>

\* A task on a disk that starts empty, with the orchestrator creating and
\* removing the task's FIFOs at any moment of the task's life, and one
\* goroutine receiving from its Done; the strategy is the shell command.
LifeInit == Init /\ fs = {} /\ ~args.custom

LifeNext ==
  \/ NewSciTask
  \/ ExecuteStart
  \/ \E p \in Ports : FifoCheckStep(p)
  \/ ExecuteDecide
  \/ \E path \in PathsOf(PathPool) : StrategyWrite(path)
  \/ StrategyReturn
  \/ CommandFails
  \/ \E p \in Ports : AtomizeStep(p)
  \/ AtomizeReturn
  \/ SendDone(1)
  \/ DeferClose
  \/ RecvStart(1)
  \/ RecvClosed(1)
  \/ createFifos
  \/ cleanUpFifos
  \/ \E p \in Ports : FifoLoopStep(p)
  \/ FifoLoopReturn

SpecLife == LifeInit /\ [][LifeNext]_vars

\* What construction yields for the out ports.
TargetsAsConstructed ==
  /\ DOMAIN OutTargets = DOMAIN args.outPathFuncs
  /\ \A p \in DOMAIN args.outPathFuncs :
        /\ GetPath(OutTargets[p]) = args.outPathFuncs[p]
        /\ OutTargets[p].doStream = MapGetBool(args.outPortsDoStream, p)
        /\ ofunCalls[p] = 1

\* C16: a constructed task has, for every port with a path function, an out
\* target whose final path is the function's value, evaluated once; and no
\* step of Execute, createFifos or cleanUpFifos changes the out targets, the
\* number of evaluations or the formatted Command.
C16_PathStable ==
  /\ [](pc \notin {"new", "configError"} => TargetsAsConstructed)
  /\ [][pc # "new" => /\ OutTargets' = OutTargets
                       /\ Command' = Command
                       /\ ofunCalls' = ofunCalls]_vars

\* A task with two ports of different paths, one of them streaming, ran
\* between a createFifos and a cleanUpFifos and is done.
C16_Witness ==
  /\ pc = "done" /\ branch = "run"
  /\ TargetsAsConstructed
  /\ \E p, q \in Declared :
        /\ FinalOf(p) # FinalOf(q)
        /\ Streaming(p) /\ FifoOf(p) \in fs0 /\ FifoOf(p) \notin fs
        /\ NonStreaming(q) /\ atomized[q] = 1


\* Execute has been invoked or can be, and has not returned.
ExecuteUnfinished == pc \notin {"new", "configError", "done", "aborted"}

\* C17 as stated: a task without streaming ports has no blocking point
\* besides its command, which terminates: as long as Execute has not
\* returned, its worker can take a step or its command can end, whatever
\* the receivers of Done are doing.
C17_Original ==
  (ExecuteUnfinished /\ \A p \in Declared : ~Streaming(p)) =>
    ENABLED (WorkerStep \/ CommandFails)

\* Execute is blocked in its send on Done, with no goroutine receiving.
C17_BlockedInSend ==
  /\ pc = "sending"
  /\ \A p \in Declared : ~Streaming(p)
  /\ \A r \in Receivers : recv[r] = "idle"
  /\ ~ENABLED (WorkerStep \/ CommandFails)


\* Receiver r of Done has been released, by the value or by the close.
Released(r) == recv[r] \in {"value", "closed"}

\* The task is in a terminal state: skipped, or its strategy finished
\* without error and every non-streaming output has been atomized.
TerminalState ==
  \/ branch = "skip"
  \/ /\ branch = "run"
     /\ strategyOk /\ ~cmdErr
     /\ pc \notin {"running", "atomizing", "panic"}
     /\ \A p \in Declared : NonStreaming(p) => atomized[p] >= 1

\* C18 as stated: a receiver of Done is released only when the task is in a
\* terminal state; none is released while the command runs, before
\* atomization or after the command failed.
C18_Original == \A r \in Receivers : Released(r) => TerminalState

\* A receiver is released by the close although the command failed.
C18_ReleasedAfterFailure ==
  \E r \in Receivers : recv[r] = "closed" /\ cmdErr /\ pc = "aborted"

\* Short of a panic, receivers are released in a terminal state only.
C18_NoPanic == (\E r \in Receivers : Released(r)) => (TerminalState \/ pc = "aborted")


\* ------------------------------------------------ broadcast of Done
\* A task on an empty disk; its worker is scheduled, and a goroutine
\* blocked in a receive from the closed channel gets to return.
SignalInit == Init /\ fs = {}

SpecSignal ==
  /\ SignalInit /\ [][Next]_vars
  /\ WF_vars(WorkerStep)
  /\ \A r \in Receivers : WF_vars(RecvClosed(r))

ValueReceivers == {r \in Receivers : recv[r] = "value"}

\* Execute has reached its send on Done or has gone past it.
SignalReached == pc \in {"sending", "sent", "done"}

\* C19: at most one receiver gets the value, and exactly one has it when
\* Execute has returned; every receiver that waits when Execute has reached
\* its signal is eventually released, by the value or by the close.
C19_Broadcast ==
  /\ [](/\ Cardinality(ValueReceivers) <= 1
        /\ pc = "done" => Cardinality(ValueReceivers) = 1)
  /\ \A r \in Receivers : (recv[r] = "waiting" /\ SignalReached) ~> Released(r)

\* Execute has returned; one receiver has the value and another one, which
\* was waiting too, has observed the close.
C19_Witness ==
  /\ pc = "done"
  /\ \E r, s \in Receivers : recv[r] = "value" /\ recv[s] = "closed"


\* ------------------------------------------- producer and consumer
soloVars == <<args, pc, Command, OutTargets, ofunCalls, execVars, chanVars, fifoVars>>

ProdPath == <<Lit("/data/a.out")>>
ConsPath == <<Lit("/data/b.out")>>
PipeProdPat == <<Lit("gen > "), Ph("os", "out")>>
PipeConsPat == <<Lit("cat "), Ph("i", "in"), Lit(" > "), Ph("o", "out")>>

\* The arguments the two tasks are constructed with; the consumer's in
\* target is the producer's out target.
PipeArgs(t, prodOut) ==
  IF t = "prod"
  THEN [cmdPat |-> PipeProdPat, inTargets |-> << >>,
        outPathFuncs |-> [p \in {"out"} |-> ProdPath],
        outPortsDoStream |-> [p \in {"out"} |-> TRUE],
        params |-> << >>, prepend |-> EmptyStr]
  ELSE [cmdPat |-> PipeConsPat, inTargets |-> [p \in {"in"} |-> prodOut["out"]],
        outPathFuncs |-> [p \in {"out"} |-> ConsPath],
        outPortsDoStream |-> << >>,
        params |-> << >>, prepend |-> EmptyStr]

\* The FIFO between the two tasks.
PipeFifo == GetFifoPath(tOut["prod"]["out"])

\* The command line cmd names path.
Names(cmd, path) ==
  \E i \in 1..Len(cmd) :
     i + Len(path) - 1 <= Len(cmd) /\ SubSeq(cmd, i, i + Len(path) - 1) = path

\* The disk holds nothing, or files of the consumer's output left by an
\* earlier run.
PipeInit ==
  /\ args = [cmdPat |-> PatPlain, inTargets |-> InTargetsArg, outPathFuncs |-> << >>,
             outPortsDoStream |-> << >>, params |-> ParamsArg, prepend |-> EmptyStr,
             custom |-> FALSE]
  /\ pc = "new"
  /\ Command = EmptyStr
  /\ OutTargets = << >>
  /\ fs \in SUBSET {ConsPath, ConsPath \o <<Lit(".tmp")>>}
  /\ fs0 = {}
  /\ branch = "none"
  /\ cmdRuns = 0
  /\ customRuns = 0
  /\ shellCmd = EmptyStr
  /\ strategyOk = FALSE
  /\ cmdErr = FALSE
  /\ todo = {}
  /\ fifosMissing = FALSE
  /\ atomized = [p \in Ports |-> 0]
  /\ doneSent = 0
  /\ doneClosed = FALSE
  /\ recv = [r \in Receivers |-> "idle"]
  /\ ofunCalls = [p \in Ports |-> 0]
  /\ FifoIdle
  /\ PipeIdle

\* NewSciTask for the producer, then for the consumer.
PipeNewTasks ==
  /\ pst = "new"
  /\ LET pa == PipeArgs("prod", << >>)
         prodOut == NewOutTargets(pa.outPathFuncs, pa.outPortsDoStream)
         rp == formatCommand(pa.cmdPat, pa.inTargets, prodOut, pa.params, pa.prepend)
         ca == PipeArgs("cons", prodOut)
         consOut == NewOutTargets(ca.outPathFuncs, ca.outPortsDoStream)
         rc == formatCommand(ca.cmdPat, ca.inTargets, consOut, ca.params, ca.prepend)
     IN /\ rp.ok /\ rc.ok
        /\ tOut' = [t \in Tasks |-> IF t = "prod" THEN prodOut ELSE consOut]
        /\ tCommand' = [t \in Tasks |-> IF t = "prod" THEN rp.cmd ELSE rc.cmd]
  /\ pst' = "wired"
  /\ UNCHANGED <<soloVars, ttodo, fs, tpc, trecv, tclosed, tskip, tfail, moved>>

\* createFifos is called on the producer, before either Execute.
PipeCreateFifos ==
  /\ pst = "wired"
  /\ fs' = ForEachStreaming("create", DOMAIN tOut["prod"], tOut["prod"], fs)
  /\ pst' = "ready"
  /\ UNCHANGED <<soloVars, ttodo, tpc, tCommand, tOut, trecv, tclosed, tskip, tfail, moved>>

\* Execute of task t is invoked: its skip decision, then the start of its
\* command or the way to the send on Done.
PipeExecuteStart(t) ==
  /\ pst = "ready"
  /\ tpc[t] = "created"
  /\ IF ShouldRun(tOut[t], fs)
     THEN tpc' = [tpc EXCEPT ![t] = "cmd"] /\ UNCHANGED tskip
     ELSE tpc' = [tpc EXCEPT ![t] = "sending"] /\ tskip' = [tskip EXCEPT ![t] = TRUE]
  /\ UNCHANGED <<soloVars, ttodo, fs, pst, tCommand, tOut, trecv, tclosed, tfail, moved>>

\* The consumer's command has started: the shell sets up the redirection
\* of its output, which creates the temp file, before it starts cat.
PipeRedirect ==
  /\ tpc["cons"] = "cmd"
  /\ fs' = fs \cup {GetTempPath(tOut["cons"]["out"])}
  /\ tpc' = [tpc EXCEPT !["cons"] = "started"]
  /\ UNCHANGED <<soloVars, ttodo, pst, tCommand, tOut, trecv, tclosed, tskip, tfail, moved>>

\* The command of t opens the FIFO its command line names (the producer's
\* as the redirection of its output, the consumer's in cat) and blocks in
\* the open until the other end is opened.
PipeOpen(t) ==
  /\ tpc[t] = IF t = "prod" THEN "cmd" ELSE "started"
  /\ Names(tCommand[t], PipeFifo) /\ StatOk(fs, PipeFifo)
  /\ tpc' = [tpc EXCEPT ![t] = "opening"]
  /\ UNCHANGED <<soloVars, ttodo, fs, pst, tCommand, tOut, trecv, tclosed, tskip, tfail,
                 moved>>

\* Both ends of the FIFO are being opened: both opens return.
PipeConnect ==
  /\ \A t \in Tasks : tpc[t] = "opening"
  /\ tpc' = [t \in Tasks |-> "io"]
  /\ UNCHANGED <<soloVars, ttodo, fs, pst, tCommand, tOut, trecv, tclosed, tskip, tfail, moved>>

\* The producer's command writes its data, which the consumer's reads.
PipeTransfer ==
  /\ \A t \in Tasks : tpc[t] = "io"
  /\ moved = 0
  /\ moved' = 1
  /\ UNCHANGED <<soloVars, ttodo, fs, pst, tpc, tCommand, tOut, trecv, tclosed, tskip, tfail>>

\* The command of t ends without error: the producer's when it has
\* written, the consumer's at the end of file, which it reads once the
\* producer's command has ended and so closed its end of the FIFO.
\* atomizeTargets starts.
PipeCmdExit(t) ==
  /\ tpc[t] = "io"
  /\ IF t = "prod" THEN moved = 1 ELSE tpc["prod"] # "io"
  /\ ttodo' = [ttodo EXCEPT ![t] = DOMAIN tOut[t]]
  /\ tpc' = [tpc EXCEPT ![t] = "atomizing"]
  /\ UNCHANGED <<soloVars, fs, pst, tCommand, tOut, trecv, tclosed, tskip, tfail, moved>>

\* The producer's command writes to the FIFO after the consumer's command
\* has ended without reading: the write fails and so does the command.
PipeBrokenPipe ==
  /\ tpc["prod"] = "io"
  /\ tpc["cons"] # "io"
  /\ moved = 0
  /\ tfail' = [tfail EXCEPT !["prod"] = TRUE]
  /\ tpc' = [tpc EXCEPT !["prod"] = Check(TRUE, "atomizing")]
  /\ UNCHANGED <<soloVars, ttodo, fs, pst, tCommand, tOut, trecv, tclosed, tskip, moved>>

\* The command of t ends with an error at any point after its start (it
\* cannot be started, its program is missing, it is killed while it waits
\* in the open, it exits non-zero); Check aborts.
PipeCmdFails(t) ==
  /\ tpc[t] \in {"cmd", "started", "opening", "io"}
  /\ tfail' = [tfail EXCEPT ![t] = TRUE]
  /\ tpc' = [tpc EXCEPT ![t] = Check(TRUE, "atomizing")]
  /\ UNCHANGED <<soloVars, ttodo, fs, pst, tCommand, tOut, trecv, tclosed, tskip, moved>>

\* One iteration of the loop of atomizeTargets of task t, for port p; the
\* map is ranged over in any order.
PipeAtomizeStep(t, p) ==
  /\ tpc[t] = "atomizing"
  /\ p \in ttodo[t]
  /\ ttodo' = [ttodo EXCEPT ![t] = @ \ {p}]
  /\ IF ~tOut[t][p].doStream
     THEN /\ tpc' = [tpc EXCEPT ![t] = Check(AtomizeErr(tOut[t][p], fs), "atomizing")]
          /\ fs' = IF AtomizeErr(tOut[t][p], fs) THEN fs
                   ELSE AtomizeFiles(tOut[t][p], fs)
     ELSE UNCHANGED <<fs, tpc>>
  /\ UNCHANGED <<soloVars, pst, tCommand, tOut, trecv, tclosed, tskip, tfail, moved>>

\* atomizeTargets of task t returns.
PipeAtomizeReturn(t) ==
  /\ tpc[t] = "atomizing"
  /\ ttodo[t] = {}
  /\ tpc' = [tpc EXCEPT ![t] = "sending"]
  /\ UNCHANGED <<soloVars, ttodo, fs, pst, tCommand, tOut, trecv, tclosed, tskip, tfail,
                 moved>>

\* t.Done <- 1: a rendezvous with the goroutine receiving from t.Done.
PipeSendDone(t) ==
  /\ tpc[t] = "sending"
  /\ trecv[t] = "waiting"
  /\ trecv' = [trecv EXCEPT ![t] = "value"]
  /\ tpc' = [tpc EXCEPT ![t] = "sent"]
  /\ UNCHANGED <<soloVars, ttodo, fs, pst, tCommand, tOut, tclosed, tskip, tfail, moved>>

\* defer close(t.Done) of task t.
PipeDeferClose(t) ==
  /\ tpc[t] \in {"sent", "panic"}
  /\ tclosed' = [tclosed EXCEPT ![t] = TRUE]
  /\ tpc' = [tpc EXCEPT ![t] = IF tpc[t] = "sent" THEN "done" ELSE "aborted"]
  /\ UNCHANGED <<soloVars, ttodo, fs, pst, tCommand, tOut, trecv, tskip, tfail, moved>>

\* The goroutine that receives from the Done of t starts its receive.
PipeRecvStart(t) ==
  /\ pst # "new"
  /\ trecv[t] = "idle"
  /\ trecv' = [trecv EXCEPT ![t] = "waiting"]
  /\ UNCHANGED <<soloVars, ttodo, fs, pst, tpc, tCommand, tOut, tclosed, tskip, tfail, moved>>

\* Its receive returns from the closed channel.
PipeRecvClosed(t) ==
  /\ trecv[t] = "waiting"
  /\ tclosed[t]
  /\ trecv' = [trecv EXCEPT ![t] = "closed"]
  /\ UNCHANGED <<soloVars, ttodo, fs, pst, tpc, tCommand, tOut, tclosed, tskip, tfail, moved>>

\* What is scheduled until it blocks: the orchestrator and the workers, the
\* commands and the FIFO, the receivers.  A command need not fail.
PipeProgress ==
  \/ PipeNewTasks
  \/ PipeCreateFifos
  \/ \E t \in Tasks : PipeExecuteStart(t)
  \/ PipeRedirect
  \/ \E t \in Tasks : PipeOpen(t)
  \/ PipeConnect
  \/ PipeTransfer
  \/ \E t \in Tasks : PipeCmdExit(t)
  \/ PipeBrokenPipe
  \/ \E t \in Tasks : \E p \in DOMAIN tOut[t] : PipeAtomizeStep(t, p)
  \/ \E t \in Tasks : PipeAtomizeReturn(t)
  \/ \E t \in Tasks : PipeSendDone(t)
  \/ \E t \in Tasks : PipeDeferClose(t)
  \/ \E t \in Tasks : PipeRecvStart(t)
  \/ \E t \in Tasks : PipeRecvClosed(t)

PipeNext == PipeProgress \/ \E t \in Tasks : PipeCmdFails(t)

SpecPipe == PipeInit /\ [][PipeNext]_vars /\ WF_vars(PipeProgress)


\* The producer's command writes to the FIFO and the consumer's command
\* reads from that same path.
SameFifoPath ==
  pst # "new" =>
    /\ tCommand["prod"] = <<Lit("gen > ")>> \o PipeFifo
    /\ tCommand["cons"] = <<Lit("cat ")>> \o PipeFifo \o <<Lit(" > ")>>
                             \o GetTempPath(tOut["cons"]["out"])

Invoked(t) == tpc[t] # "created"

\* No end of the FIFO is open and no data has moved before both Execute
\* have been invoked.
NoProgressBeforeBoth ==
  (moved > 0 \/ \E t \in Tasks : tpc[t] = "io") => \A t \in Tasks : Invoked(t)

\* Task t has completed and signalled Done.
Completed(t) == tpc[t] = "done" /\ trecv[t] = "value" /\ tclosed[t]

\* C20 as stated: same FIFO path, no progress before both Execute are
\* invoked, and once both are invoked both tasks complete and signal Done.
C20_Original ==
  /\ []SameFifoPath
  /\ []NoProgressBeforeBoth
  /\ (\A t \in Tasks : Invoked(t)) ~> (\A t \in Tasks : Completed(t))

\* What does hold of the pipeline: same FIFO path, no progress before both
\* Execute are invoked, and once both are invoked with neither task
\* skipped, both tasks complete and signal Done or a command has failed.
C20_PipeCompletes ==
  /\ []SameFifoPath
  /\ []NoProgressBeforeBoth
  /\ ((\A t \in Tasks : Invoked(t) /\ ~tskip[t])
        ~> ((\A t \in Tasks : Completed(t)) \/ (\E t \in Tasks : tfail[t])))

\* Both tasks ran, the data went through the FIFO, the consumer's output is
\* in place and both have signalled Done.
C20_Witness ==
  /\ \A t \in Tasks : Completed(t) /\ ~tskip[t] /\ ~tfail[t]
  /\ moved = 1
  /\ GetPath(tOut["cons"]["out"]) \in fs

\* The consumer was skipped and is done; the producer's command stays
\* blocked in the open of the FIFO: nothing but a failure of its own can
\* end it.
C20_ProducerStuck ==
  /\ tskip["cons"] /\ Completed("cons")
  /\ tpc["prod"] = "opening" /\ ~tfail["prod"]
  /\ \A t \in Tasks : ~tfail[t]
  /\ ~ENABLED PipeProgress

\* The consumer's command failed before it opened the FIFO; the producer's
\* command stays blocked in the open, though neither task was skipped:
\* nothing but a failure of its own can end it.
C20_StuckAfterFailure ==
  /\ tfail["cons"] /\ tpc["cons"] = "aborted"
  /\ \A t \in Tasks : ~tskip[t]
  /\ tpc["prod"] = "opening" /\ ~tfail["prod"]
  /\ ~ENABLED PipeProgress

====
